---- MODULE Spec2Model ----
(***************************************************************************)
(* The conversational intake flow of crewai-projects/crewai-flow/app.py:   *)
(* the global ConversationManager, the chatbot_logic handler that Gradio   *)
(* calls once per user message, and the chat windows of the browser        *)
(* sessions the server answers, each handing its own history to the        *)
(* handler.                                                                *)
(*                                                                         *)
(* Also run_sequential_analysis of                                         *)
(* agno-projects/real_estate_agents/analysis.py: its progress reports, the *)
(* agents it runs and what it returns.                                     *)
(*                                                                         *)
(* Python strings that the code inspects or converts (lower, strip, title, *)
(* substring tests, regular expressions) are sequences of one-character    *)
(* strings, so that every conversion is computed and not assumed.          *)
(***************************************************************************)
EXTENDS Integers, Sequences, FiniteSets, TLC

VARIABLES
    conv_manager,   \* the module-level ConversationManager object
    history,        \* per chat window, the number of earlier exchanges it shows (saturates at 1)
    session,        \* the chat window the last step belonged to (0: no step yet)
    message,        \* the message handled by the last step (None: the step was no turn)
    stage_before,   \* the stage in which that message was received
    yielded,        \* the outputs chatbot_logic yielded in the last turn, in order
    crew,           \* what became of process_with_crew in the last turn
    analysis        \* the call of run_sequential_analysis: position, reports, agents run

vars == <<conv_manager, history, session, message, stage_before, yielded, crew, analysis>>

\* Python's None, distinct from every string (strings hold one-character elements).
None == <<"None">>

-----------------------------------------------------------------------------
(* Python string operations *)

ascii_lowercase == <<"a", "b", "c", "d", "e", "f", "g", "h", "i", "j", "k", "l", "m", "n", "o", "p", "q", "r", "s", "t", "u", "v", "w", "x", "y", "z">>
ascii_uppercase == <<"A", "B", "C", "D", "E", "F", "G", "H", "I", "J", "K", "L", "M", "N", "O", "P", "Q", "R", "S", "T", "U", "V", "W", "X", "Y", "Z">>
ascii_digits == {"0", "1", "2", "3", "4", "5", "6", "7", "8", "9"}
ascii_whitespace == {" ", "\t", "\n", "\r", "\f"}

Range(seq) == {seq[i] : i \in DOMAIN seq}

lowercase_letters == Range(ascii_lowercase)
uppercase_letters == Range(ascii_uppercase)

IsLower(c) == c \in lowercase_letters
IsUpper(c) == c \in uppercase_letters
IsAlpha(c) == IsLower(c) \/ IsUpper(c)

IndexIn(c, seq) == CHOOSE i \in DOMAIN seq : seq[i] = c

lower_char(c) == IF IsUpper(c) THEN ascii_lowercase[IndexIn(c, ascii_uppercase)] ELSE c
upper_char(c) == IF IsLower(c) THEN ascii_uppercase[IndexIn(c, ascii_lowercase)] ELSE c

\* str.lower()
lower(s) == [i \in DOMAIN s |-> lower_char(s[i])]

\* str.strip(): drops leading and trailing whitespace
strip(s) ==
    LET keep == {i \in DOMAIN s : s[i] \notin ascii_whitespace}
    IN  IF keep = {} THEN <<>>
        ELSE LET first == CHOOSE i \in keep : \A j \in keep : i <= j
                 last == CHOOSE i \in keep : \A j \in keep : j <= i
             IN  SubSeq(s, first, last)

\* str.title(): a letter that follows a non-letter is upper-cased, every other letter lower-cased
title(s) ==
    [i \in DOMAIN s |->
        IF i = 1 \/ ~IsAlpha(s[i - 1]) THEN upper_char(s[i]) ELSE lower_char(s[i])]

\* str.replace(old, new) for one-character old and new
replace(s, old, new) == [i \in DOMAIN s |-> IF s[i] = old THEN new ELSE s[i]]

\* sub in s
contains(sub, s) ==
    \E i \in 0..(Len(s) - Len(sub)) : SubSeq(s, i + 1, i + Len(sub)) = sub

\* re.sub(r'\D', '', s): the digits of s, in order
sub_non_digits(s) == SelectSeq(s, LAMBDA c : c \in ascii_digits)

-----------------------------------------------------------------------------
(* Python dicts: functions on the set of keys present *)

EmptyDict == [k \in {} |-> None]

\* d.get(k, default)
dict_get(d, k, default) == IF k \in DOMAIN d THEN d[k] ELSE default

\* d[k] = v
dict_set(d, k, v) == [x \in (DOMAIN d) \cup {k} |-> IF x = k THEN v ELSE d[x]]

-----------------------------------------------------------------------------
(* Job configurations *)

JOB_CONFIGS ==
    [data_scientist |->
        [role |-> <<"D", "a", "t", "a", " ", "S", "c", "i", "e", "n", "t", "i", "s", "t">>,
         required_skills |-> <<<<"p", "y", "t", "h", "o", "n">>, <<"m", "a", "c", "h", "i", "n", "e", "_", "l", "e", "a", "r", "n", "i", "n", "g">>, <<"s", "t", "a", "t", "i", "s", "t", "i", "c", "s">>, <<"s", "q", "l">>>>,
         optional_skills |-> <<<<"p", "a", "n", "d", "a", "s">>, <<"n", "u", "m", "p", "y">>, <<"t", "e", "n", "s", "o", "r", "f", "l", "o", "w">>, <<"p", "y", "t", "o", "r", "c", "h">>, <<"r">>, <<"t", "a", "b", "l", "e", "a", "u">>>>,
         experience_levels |->
            (<<"p", "y", "t", "h", "o", "n">> :> <<"P", "y", "t", "h", "o", "n", " ", "p", "r", "o", "g", "r", "a", "m", "m", "i", "n", "g", " ", "e", "x", "p", "e", "r", "i", "e", "n", "c", "e">>
             @@ <<"m", "a", "c", "h", "i", "n", "e", "_", "l", "e", "a", "r", "n", "i", "n", "g">> :> <<"M", "a", "c", "h", "i", "n", "e", " ", "L", "e", "a", "r", "n", "i", "n", "g", " ", "a", "l", "g", "o", "r", "i", "t", "h", "m", "s", " ", "a", "n", "d", " ", "f", "r", "a", "m", "e", "w", "o", "r", "k", "s">>
             @@ <<"s", "t", "a", "t", "i", "s", "t", "i", "c", "s">> :> <<"S", "t", "a", "t", "i", "s", "t", "i", "c", "a", "l", " ", "a", "n", "a", "l", "y", "s", "i", "s", " ", "a", "n", "d", " ", "m", "o", "d", "e", "l", "i", "n", "g">>
             @@ <<"s", "q", "l">> :> <<"D", "a", "t", "a", "b", "a", "s", "e", " ", "q", "u", "e", "r", "y", "i", "n", "g", " ", "w", "i", "t", "h", " ", "S", "Q", "L">>
             @@ <<"p", "a", "n", "d", "a", "s">> :> <<"D", "a", "t", "a", " ", "m", "a", "n", "i", "p", "u", "l", "a", "t", "i", "o", "n", " ", "w", "i", "t", "h", " ", "P", "a", "n", "d", "a", "s">>
             @@ <<"n", "u", "m", "p", "y">> :> <<"N", "u", "m", "e", "r", "i", "c", "a", "l", " ", "c", "o", "m", "p", "u", "t", "i", "n", "g", " ", "w", "i", "t", "h", " ", "N", "u", "m", "P", "y">>)],
     software_engineer |->
        [role |-> <<"S", "o", "f", "t", "w", "a", "r", "e", " ", "E", "n", "g", "i", "n", "e", "e", "r">>,
         required_skills |-> <<<<"p", "r", "o", "g", "r", "a", "m", "m", "i", "n", "g">>, <<"a", "l", "g", "o", "r", "i", "t", "h", "m", "s">>, <<"s", "y", "s", "t", "e", "m", "_", "d", "e", "s", "i", "g", "n">>>>,
         optional_skills |-> <<<<"j", "a", "v", "a">>, <<"p", "y", "t", "h", "o", "n">>, <<"j", "a", "v", "a", "s", "c", "r", "i", "p", "t">>, <<"d", "o", "c", "k", "e", "r">>, <<"k", "u", "b", "e", "r", "n", "e", "t", "e", "s">>, <<"a", "w", "s">>>>,
         experience_levels |->
            (<<"p", "r", "o", "g", "r", "a", "m", "m", "i", "n", "g">> :> <<"G", "e", "n", "e", "r", "a", "l", " ", "p", "r", "o", "g", "r", "a", "m", "m", "i", "n", "g", " ", "e", "x", "p", "e", "r", "i", "e", "n", "c", "e">>
             @@ <<"a", "l", "g", "o", "r", "i", "t", "h", "m", "s">> :> <<"D", "a", "t", "a", " ", "s", "t", "r", "u", "c", "t", "u", "r", "e", "s", " ", "a", "n", "d", " ", "a", "l", "g", "o", "r", "i", "t", "h", "m", "s">>
             @@ <<"s", "y", "s", "t", "e", "m", "_", "d", "e", "s", "i", "g", "n">> :> <<"S", "y", "s", "t", "e", "m", " ", "a", "r", "c", "h", "i", "t", "e", "c", "t", "u", "r", "e", " ", "a", "n", "d", " ", "d", "e", "s", "i", "g", "n">>
             @@ <<"j", "a", "v", "a">> :> <<"J", "a", "v", "a", " ", "d", "e", "v", "e", "l", "o", "p", "m", "e", "n", "t", " ", "e", "x", "p", "e", "r", "i", "e", "n", "c", "e">>
             @@ <<"p", "y", "t", "h", "o", "n">> :> <<"P", "y", "t", "h", "o", "n", " ", "p", "r", "o", "g", "r", "a", "m", "m", "i", "n", "g", " ", "e", "x", "p", "e", "r", "i", "e", "n", "c", "e">>)],
     product_manager |->
        [role |-> <<"P", "r", "o", "d", "u", "c", "t", " ", "M", "a", "n", "a", "g", "e", "r">>,
         required_skills |-> <<<<"p", "r", "o", "d", "u", "c", "t", "_", "s", "t", "r", "a", "t", "e", "g", "y">>, <<"s", "t", "a", "k", "e", "h", "o", "l", "d", "e", "r", "_", "m", "a", "n", "a", "g", "e", "m", "e", "n", "t">>, <<"a", "n", "a", "l", "y", "t", "i", "c", "s">>>>,
         optional_skills |-> <<<<"a", "g", "i", "l", "e">>, <<"s", "c", "r", "u", "m">>, <<"j", "i", "r", "a">>, <<"f", "i", "g", "m", "a">>, <<"s", "q", "l">>>>,
         experience_levels |->
            (<<"p", "r", "o", "d", "u", "c", "t", "_", "s", "t", "r", "a", "t", "e", "g", "y">> :> <<"P", "r", "o", "d", "u", "c", "t", " ", "s", "t", "r", "a", "t", "e", "g", "y", " ", "a", "n", "d", " ", "r", "o", "a", "d", "m", "a", "p", " ", "p", "l", "a", "n", "n", "i", "n", "g">>
             @@ <<"s", "t", "a", "k", "e", "h", "o", "l", "d", "e", "r", "_", "m", "a", "n", "a", "g", "e", "m", "e", "n", "t">> :> <<"M", "a", "n", "a", "g", "i", "n", "g", " ", "c", "r", "o", "s", "s", "-", "f", "u", "n", "c", "t", "i", "o", "n", "a", "l", " ", "t", "e", "a", "m", "s">>
             @@ <<"a", "n", "a", "l", "y", "t", "i", "c", "s">> :> <<"D", "a", "t", "a", " ", "a", "n", "a", "l", "y", "s", "i", "s", " ", "a", "n", "d", " ", "m", "e", "t", "r", "i", "c", "s", " ", "i", "n", "t", "e", "r", "p", "r", "e", "t", "a", "t", "i", "o", "n">>)]]

\* UserProfile() with a default job role that JOB_CONFIGS does not have
UserProfile_unknown_default_role ==
    [name |-> None, email |-> None, phone |-> None, current_ctc |-> None,
     expected_ctc |-> None, total_experience |-> None, current_company |-> None,
     current_role |-> None, location |-> None, notice_period |-> None,
     skills_experience |-> EmptyDict, resume_text |-> None, additional_info |-> None,
     job_role |-> "data_science"]

\* UserProfile(): every optional field None, no skill answers, the default job role
UserProfile ==
    [name |-> None, email |-> None, phone |-> None, current_ctc |-> None,
     expected_ctc |-> None, total_experience |-> None, current_company |-> None,
     current_role |-> None, location |-> None, notice_period |-> None,
     skills_experience |-> EmptyDict, resume_text |-> None, additional_info |-> None,
     job_role |-> "data_scientist"]

-----------------------------------------------------------------------------
(* ConversationManager *)

\* ConversationManager.reset_state: the state it leaves behind
reset_state ==
    [user_profile |-> UserProfile,
     current_stage |-> "welcome",
     current_skill_index |-> 0,
     conversation_history |-> <<>>,
     validation_attempts |-> EmptyDict]

\* ^[a-zA-Z0-9._%+-]+@[a-zA-Z0-9.-]+\.[a-zA-Z]{2,}$ under re.match; "$" also
\* matches just before a newline that ends the string.
is_valid_email(email) ==
    LET n == Len(email)
        local(c) == IsAlpha(c) \/ c \in ascii_digits \/ c \in {".", "_", "%", "+", "-"}
        domain(c) == IsAlpha(c) \/ c \in ascii_digits \/ c \in {".", "-"}
        ends == {n} \cup (IF n > 0 /\ email[n] = "\n" THEN {n - 1} ELSE {})
    IN  \E e \in ends : \E at \in 2..e : \E dot \in (at + 2)..(e - 2) :
            /\ email[at] = "@"
            /\ email[dot] = "."
            /\ \A i \in 1..(at - 1) : local(email[i])
            /\ \A i \in (at + 1)..(dot - 1) : domain(email[i])
            /\ \A i \in (dot + 1)..e : IsAlpha(email[i])

is_valid_phone(phone) == Len(sub_non_digits(phone)) >= 10

\* ConversationManager.get_next_skill
get_next_skill(cm) ==
    LET job_config == JOB_CONFIGS[cm.user_profile.job_role]
        all_skills == job_config.required_skills \o job_config.optional_skills
    IN  IF cm.current_skill_index < Len(all_skills)
        THEN all_skills[cm.current_skill_index + 1]
        ELSE None

\* is_skill_required looking in the required list of every role
is_skill_required_in_any_role(cm, skill) ==
    \E r \in DOMAIN JOB_CONFIGS : skill \in Range(JOB_CONFIGS[r].required_skills)

\* ConversationManager.is_skill_required
is_skill_required(cm, skill) ==
    skill \in Range(JOB_CONFIGS[cm.user_profile.job_role].required_skills)

-----------------------------------------------------------------------------
(* Outputs: a yielded string is its template and the values formatted into it *)

Prompt(text, args) == [text |-> text, args |-> args]

get_welcome_message == Prompt("welcome", <<>>)

\* process_job_selection starting a new UserProfile for the selected role
process_job_selection_new_profile(cm, msg) ==
    LET message_lower == lower(msg)
        selected(job_role, role_name) ==
            [cm |-> [cm EXCEPT !.user_profile = [UserProfile EXCEPT !.job_role = job_role]],
             response |-> Prompt("job_selected", <<role_name>>),
             next_stage |-> "get_name"]
    IN  IF contains(<<"d", "a", "t", "a">>, message_lower) \/ contains(<<"s", "c", "i", "e", "n", "t", "i", "s", "t">>, message_lower)
        THEN selected("data_scientist", <<"D", "a", "t", "a", " ", "S", "c", "i", "e", "n", "t", "i", "s", "t">>)
        ELSE IF contains(<<"s", "o", "f", "t", "w", "a", "r", "e">>, message_lower) \/ contains(<<"e", "n", "g", "i", "n", "e", "e", "r">>, message_lower)
        THEN selected("software_engineer", <<"S", "o", "f", "t", "w", "a", "r", "e", " ", "E", "n", "g", "i", "n", "e", "e", "r">>)
        ELSE IF contains(<<"p", "r", "o", "d", "u", "c", "t">>, message_lower) \/ contains(<<"m", "a", "n", "a", "g", "e", "r">>, message_lower)
        THEN selected("product_manager", <<"P", "r", "o", "d", "u", "c", "t", " ", "M", "a", "n", "a", "g", "e", "r">>)
        ELSE [cm |-> cm, response |-> Prompt("job_not_caught", <<>>),
              next_stage |-> "job_selection"]

\* process_job_selection with the three tests in the opposite order
process_job_selection_reversed(cm, msg) ==
    LET message_lower == lower(msg)
        selected(job_role, role_name) ==
            [cm |-> [cm EXCEPT !.user_profile.job_role = job_role],
             response |-> Prompt("job_selected", <<role_name>>),
             next_stage |-> "get_name"]
    IN  IF contains(<<"p", "r", "o", "d", "u", "c", "t">>, message_lower) \/ contains(<<"m", "a", "n", "a", "g", "e", "r">>, message_lower)
        THEN selected("product_manager", <<"P", "r", "o", "d", "u", "c", "t", " ", "M", "a", "n", "a", "g", "e", "r">>)
        ELSE IF contains(<<"s", "o", "f", "t", "w", "a", "r", "e">>, message_lower) \/ contains(<<"e", "n", "g", "i", "n", "e", "e", "r">>, message_lower)
        THEN selected("software_engineer", <<"S", "o", "f", "t", "w", "a", "r", "e", " ", "E", "n", "g", "i", "n", "e", "e", "r">>)
        ELSE IF contains(<<"d", "a", "t", "a">>, message_lower) \/ contains(<<"s", "c", "i", "e", "n", "t", "i", "s", "t">>, message_lower)
        THEN selected("data_scientist", <<"D", "a", "t", "a", " ", "S", "c", "i", "e", "n", "t", "i", "s", "t">>)
        ELSE [cm |-> cm, response |-> Prompt("job_not_caught", <<>>),
              next_stage |-> "job_selection"]

\* process_job_selection
process_job_selection(cm, msg) ==
    LET message_lower == lower(msg)
        selected(job_role, role_name) ==
            [cm |-> [cm EXCEPT !.user_profile.job_role = job_role],
             response |-> Prompt("job_selected", <<role_name>>),
             next_stage |-> "get_name"]
    IN  IF contains(<<"d", "a", "t", "a">>, message_lower) \/ contains(<<"s", "c", "i", "e", "n", "t", "i", "s", "t">>, message_lower)
        THEN selected("data_scientist", <<"D", "a", "t", "a", " ", "S", "c", "i", "e", "n", "t", "i", "s", "t">>)
        ELSE IF contains(<<"s", "o", "f", "t", "w", "a", "r", "e">>, message_lower) \/ contains(<<"e", "n", "g", "i", "n", "e", "e", "r">>, message_lower)
        THEN selected("software_engineer", <<"S", "o", "f", "t", "w", "a", "r", "e", " ", "E", "n", "g", "i", "n", "e", "e", "r">>)
        ELSE IF contains(<<"p", "r", "o", "d", "u", "c", "t">>, message_lower) \/ contains(<<"m", "a", "n", "a", "g", "e", "r">>, message_lower)
        THEN selected("product_manager", <<"P", "r", "o", "d", "u", "c", "t", " ", "M", "a", "n", "a", "g", "e", "r">>)
        ELSE [cm |-> cm, response |-> Prompt("job_not_caught", <<>>),
              next_stage |-> "job_selection"]

\* validate_and_store_field giving up on the email at the second failure
validate_and_store_field_two_attempts(cm, field_name, value) ==
    IF field_name = "email" THEN
        IF ~is_valid_email(value) THEN
            LET attempts == dict_get(cm.validation_attempts, "email", 0) + 1
                cm2 == [cm EXCEPT !.validation_attempts = dict_set(@, "email", attempts)]
            IN  IF attempts >= 2
                THEN [cm |-> cm2, response |-> Prompt("email_skipped", <<>>),
                      new_stage |-> "get_phone", success |-> TRUE]
                ELSE [cm |-> cm2, response |-> Prompt("email_invalid", <<>>),
                      new_stage |-> "get_email", success |-> FALSE]
        ELSE [cm |-> [cm EXCEPT !.user_profile.email = value],
              response |-> Prompt("email_stored", <<value>>),
              new_stage |-> "get_phone", success |-> TRUE]
    ELSE IF field_name = "phone" THEN
        IF ~is_valid_phone(value)
        THEN [cm |-> cm, response |-> Prompt("phone_invalid", <<>>),
              new_stage |-> "get_phone", success |-> FALSE]
        ELSE [cm |-> [cm EXCEPT !.user_profile.phone = value],
              response |-> Prompt("phone_stored", <<>>),
              new_stage |-> "get_current_ctc", success |-> TRUE]
    ELSE IF field_name = "name" THEN
        IF Len(strip(value)) < 2
        THEN [cm |-> cm, response |-> Prompt("name_invalid", <<>>),
              new_stage |-> "get_name", success |-> FALSE]
        ELSE LET name == title(strip(value))
             IN  [cm |-> [cm EXCEPT !.user_profile.name = name],
                  response |-> Prompt("name_stored", <<name>>),
                  new_stage |-> "get_email", success |-> TRUE]
    ELSE [cm |-> cm, response |-> Prompt("validation_not_implemented", <<>>),
          new_stage |-> field_name, success |-> FALSE]

\* validate_and_store_field
validate_and_store_field(cm, field_name, value) ==
    IF field_name = "email" THEN
        IF ~is_valid_email(value) THEN
            LET attempts == dict_get(cm.validation_attempts, "email", 0) + 1
                cm2 == [cm EXCEPT !.validation_attempts = dict_set(@, "email", attempts)]
            IN  IF attempts >= 3
                THEN [cm |-> cm2, response |-> Prompt("email_skipped", <<>>),
                      new_stage |-> "get_phone", success |-> TRUE]
                ELSE [cm |-> cm2, response |-> Prompt("email_invalid", <<>>),
                      new_stage |-> "get_email", success |-> FALSE]
        ELSE [cm |-> [cm EXCEPT !.user_profile.email = value],
              response |-> Prompt("email_stored", <<value>>),
              new_stage |-> "get_phone", success |-> TRUE]
    ELSE IF field_name = "phone" THEN
        IF ~is_valid_phone(value)
        THEN [cm |-> cm, response |-> Prompt("phone_invalid", <<>>),
              new_stage |-> "get_phone", success |-> FALSE]
        ELSE [cm |-> [cm EXCEPT !.user_profile.phone = value],
              response |-> Prompt("phone_stored", <<>>),
              new_stage |-> "get_current_ctc", success |-> TRUE]
    ELSE IF field_name = "name" THEN
        IF Len(strip(value)) < 2
        THEN [cm |-> cm, response |-> Prompt("name_invalid", <<>>),
              new_stage |-> "get_name", success |-> FALSE]
        ELSE LET name == title(strip(value))
             IN  [cm |-> [cm EXCEPT !.user_profile.name = name],
                  response |-> Prompt("name_stored", <<name>>),
                  new_stage |-> "get_email", success |-> TRUE]
    ELSE [cm |-> cm, response |-> Prompt("validation_not_implemented", <<>>),
          new_stage |-> field_name, success |-> FALSE]

\* the skills that have a question of their own in get_skill_question
question_templates ==
    {<<"p", "y", "t", "h", "o", "n">>, <<"m", "a", "c", "h", "i", "n", "e", "_", "l", "e", "a", "r", "n", "i", "n", "g">>, <<"s", "q", "l">>, <<"s", "t", "a", "t", "i", "s", "t", "i", "c", "s">>, <<"p", "r", "o", "g", "r", "a", "m", "m", "i", "n", "g">>, <<"a", "l", "g", "o", "r", "i", "t", "h", "m", "s">>,
     <<"s", "y", "s", "t", "e", "m", "_", "d", "e", "s", "i", "g", "n">>, <<"p", "r", "o", "d", "u", "c", "t", "_", "s", "t", "r", "a", "t", "e", "g", "y">>, <<"s", "t", "a", "k", "e", "h", "o", "l", "d", "e", "r", "_", "m", "a", "n", "a", "g", "e", "m", "e", "n", "t">>, <<"a", "n", "a", "l", "y", "t", "i", "c", "s">>}

\* get_skill_question
get_skill_question(cm, skill) ==
    LET job_config == JOB_CONFIGS[cm.user_profile.job_role]
        skill_description ==
            dict_get(job_config.experience_levels, skill, title(replace(skill, "_", " ")))
        required_text == IF is_skill_required(cm, skill) THEN <<" ", "(", "R", "e", "q", "u", "i", "r", "e", "d", ")">> ELSE <<" ", "(", "O", "p", "t", "i", "o", "n", "a", "l", ")">>
    IN  IF skill \in question_templates
        THEN Prompt("skill_question", <<skill, required_text>>)
        ELSE Prompt("generic_skill_question", <<skill_description, required_text>>)

-----------------------------------------------------------------------------
(* chatbot_logic *)

reset_commands == {<<"r", "e", "s", "t", "a", "r", "t">>, <<"s", "t", "a", "r", "t", " ", "o", "v", "e", "r">>, <<"r", "e", "s", "e", "t">>, <<"n", "e", "w", " ", "a", "p", "p", "l", "i", "c", "a", "t", "i", "o", "n">>}
greetings == {<<"h", "i">>, <<"h", "e", "l", "l", "o">>, <<"h", "e", "y">>, <<"s", "t", "a", "r", "t">>}
resume_skips == {<<"s", "k", "i", "p">>, <<"n", "/", "a">>, <<"n", "o", "n", "e">>}
additional_info_skips == {<<"d", "o", "n", "e">>, <<"n", "o">>, <<"n", "o", "t", "h", "i", "n", "g">>, <<"s", "k", "i", "p">>}

\* stage -> <<field_name, next_stage>>
basic_info_stages ==
    [get_name |-> <<"name", "current_ctc">>,
     get_email |-> <<"email", "phone">>,
     get_phone |-> <<"phone", "current_ctc">>,
     get_current_ctc |-> <<"current_ctc", "expected_ctc">>,
     get_expected_ctc |-> <<"expected_ctc", "total_experience">>,
     get_total_experience |-> <<"total_experience", "current_company">>,
     get_current_company |-> <<"current_company", "current_role">>,
     get_current_role |-> <<"current_role", "location">>,
     get_location |-> <<"location", "notice_period">>,
     get_notice_period |-> <<"notice_period", "skills_assessment">>]

\* next_questions[field_name]
next_questions(cm, field_name) ==
    CASE field_name = "current_ctc" -> Prompt("What's your expected CTC?", <<>>)
      [] field_name = "expected_ctc" ->
            Prompt("How many years of total work experience do you have?", <<>>)
      [] field_name = "total_experience" -> Prompt("What's your current company name?", <<>>)
      [] field_name = "current_company" -> Prompt("What's your current job title/role?", <<>>)
      [] field_name = "current_role" -> Prompt("Which city/location are you based in?", <<>>)
      [] field_name = "location" -> Prompt("What's your notice period?", <<>>)
      [] field_name = "notice_period" ->
            Prompt("Perfect! Now let's assess your technical skills for the {role} role.",
                   <<JOB_CONFIGS[cm.user_profile.job_role].role>>)

\* the last turn made no call of process_with_crew
NoCrew == [outcome |-> "not_called", user_data |-> <<>>]

\* process_with_crew: user_data is read before the crew runs; crew.kickoff()
\* either returns, and the state is reset, or raises, and the state is kept
process_with_crew(cm, kickoff_returns) ==
    LET user_data == cm.user_profile
    IN  IF kickoff_returns
        THEN [cm |-> reset_state, outcome |-> "returned", user_data |-> <<user_data>>]
        ELSE [cm |-> cm, outcome |-> "raised", user_data |-> <<user_data>>]

\* What one call of chatbot_logic(message, history), run to its end, leaves behind
Result(cm, out, crewed) == [cm |-> cm, yielded |-> out, crew |-> crewed]

\* the "Basic information collection" block
basic_info(cm, msg) ==
    LET field_name == basic_info_stages[cm.current_stage][1]
        next_stage == basic_info_stages[cm.current_stage][2]
    IN  IF field_name \in {"name", "email", "phone"}
        THEN LET v == validate_and_store_field(cm, field_name, msg)
             IN  Result([v.cm EXCEPT !.current_stage = v.new_stage], <<v.response>>, NoCrew)
        ELSE LET cm2 == [cm EXCEPT !.user_profile[field_name] = msg,
                                   !.current_stage = next_stage]
                 skill == get_next_skill(cm2)
             IN  IF next_stage = "skills_assessment" /\ skill # None
                 THEN Result(cm2, <<next_questions(cm, field_name),
                                    get_skill_question(cm2, skill)>>, NoCrew)
                 ELSE Result(cm2, <<next_questions(cm, field_name)>>, NoCrew)

\* the "Skills assessment" block
skills_assessment(cm, msg) ==
    LET current_skill == get_next_skill(cm)
        cm2 == [cm EXCEPT !.user_profile.skills_experience = dict_set(@, current_skill, msg),
                          !.current_skill_index = @ + 1]
        next_skill == get_next_skill(cm2)
    IN  IF current_skill = None THEN Result(cm, <<>>, NoCrew)
        ELSE IF next_skill # None
        THEN Result(cm2, <<Prompt("skill_noted", <<replace(current_skill, "_", " ")>>),
                           get_skill_question(cm2, next_skill)>>, NoCrew)
        ELSE Result([cm2 EXCEPT !.current_stage = "get_resume"],
                    <<Prompt("skills_covered", <<>>), Prompt("ask_resume", <<>>)>>, NoCrew)

\* the "Resume collection" block
get_resume(cm, msg) ==
    LET cm2 == IF lower(msg) \notin resume_skips
               THEN [cm EXCEPT !.user_profile.resume_text = msg] ELSE cm
    IN  Result([cm2 EXCEPT !.current_stage = "additional_info"],
               <<Prompt("ask_additional_info", <<>>)>>, NoCrew)

\* the "Additional information" block, with the call of process_with_crew
additional_info(cm, msg, kickoff_returns) ==
    LET cm2 == IF lower(msg) \notin additional_info_skips
               THEN [cm EXCEPT !.user_profile.additional_info = msg] ELSE cm
        cm3 == [cm2 EXCEPT !.current_stage = "processing"]
        p == process_with_crew(cm3, kickoff_returns)
        started == <<Prompt("processing", <<>>), Prompt("analyzing", <<>>)>>
    IN  IF p.outcome = "returned"
        THEN Result(p.cm, started \o <<Prompt("application_complete", <<>>),
                                       Prompt("result", <<>>),
                                       Prompt("restart_hint", <<>>)>>,
                    [outcome |-> p.outcome, user_data |-> p.user_data])
        ELSE Result(p.cm, started \o <<Prompt("error", <<>>), Prompt("try_again", <<>>)>>,
                    [outcome |-> p.outcome, user_data |-> p.user_data])

\* handle_reset without its call of reset_state
handle_reset_without_reset_state(cm) ==
    Result([cm EXCEPT !.current_stage = "job_selection"], <<get_welcome_message>>, NoCrew)

\* the "Handle reset commands" block: the stage is set after the welcome is yielded
handle_reset(cm) ==
    Result([reset_state EXCEPT !.current_stage = "job_selection"],
           <<get_welcome_message>>, NoCrew)

\* the "Handle initial greeting" block, also forgetting the failed attempts
initial_greeting_clearing_attempts(cm) ==
    Result([cm EXCEPT !.current_stage = "job_selection", !.validation_attempts = EmptyDict],
           <<get_welcome_message>>, NoCrew)

\* the "Handle initial greeting" block
initial_greeting(cm) ==
    Result([cm EXCEPT !.current_stage = "job_selection"], <<get_welcome_message>>, NoCrew)

\* the "Job selection" block
job_selection(cm, msg) ==
    LET j == process_job_selection(cm, msg)
    IN  Result([j.cm EXCEPT !.current_stage = j.next_stage], <<j.response>>, NoCrew)

\* chatbot_logic with the reset keywords looked for after the stage logic
chatbot_logic_stage_logic_first(cm, msg, hist, kickoff_returns) ==
    IF cm.current_stage = "welcome" \/ (hist = 0 /\ lower(msg) \in greetings)
    THEN initial_greeting(cm)
    ELSE IF cm.current_stage = "job_selection" THEN job_selection(cm, msg)
    ELSE IF cm.current_stage \in DOMAIN basic_info_stages THEN basic_info(cm, msg)
    ELSE IF cm.current_stage = "skills_assessment" THEN skills_assessment(cm, msg)
    ELSE IF cm.current_stage = "get_resume" THEN get_resume(cm, msg)
    ELSE IF cm.current_stage = "additional_info"
    THEN additional_info(cm, msg, kickoff_returns)
    ELSE IF lower(msg) \in reset_commands THEN handle_reset(cm)
    ELSE Result(cm, <<>>, NoCrew)

\* chatbot_logic taking any message that contains a reset keyword for a reset
chatbot_logic_reset_by_substring(cm, msg, hist, kickoff_returns) ==
    IF \E k \in reset_commands : contains(k, lower(msg)) THEN handle_reset(cm)
    ELSE IF cm.current_stage = "welcome" \/ (hist = 0 /\ lower(msg) \in greetings)
    THEN initial_greeting(cm)
    ELSE IF cm.current_stage = "job_selection" THEN job_selection(cm, msg)
    ELSE IF cm.current_stage \in DOMAIN basic_info_stages THEN basic_info(cm, msg)
    ELSE IF cm.current_stage = "skills_assessment" THEN skills_assessment(cm, msg)
    ELSE IF cm.current_stage = "get_resume" THEN get_resume(cm, msg)
    ELSE IF cm.current_stage = "additional_info"
    THEN additional_info(cm, msg, kickoff_returns)
    ELSE Result(cm, <<>>, NoCrew)

\* chatbot_logic whose greeting block leaves out the test of the welcome stage
chatbot_logic_without_welcome_test(cm, msg, hist, kickoff_returns) ==
    IF lower(msg) \in reset_commands THEN handle_reset(cm)
    ELSE IF hist = 0 /\ lower(msg) \in greetings
    THEN initial_greeting(cm)
    ELSE IF cm.current_stage = "job_selection" THEN job_selection(cm, msg)
    ELSE IF cm.current_stage \in DOMAIN basic_info_stages THEN basic_info(cm, msg)
    ELSE IF cm.current_stage = "skills_assessment" THEN skills_assessment(cm, msg)
    ELSE IF cm.current_stage = "get_resume" THEN get_resume(cm, msg)
    ELSE IF cm.current_stage = "additional_info"
    THEN additional_info(cm, msg, kickoff_returns)
    ELSE Result(cm, <<>>, NoCrew)

\* chatbot_logic(message, history) run until the generator is exhausted.
\* hist is the number of earlier exchanges in the history Gradio passes.
chatbot_logic(cm, msg, hist, kickoff_returns) ==
    IF lower(msg) \in reset_commands THEN handle_reset(cm)
    ELSE IF cm.current_stage = "welcome" \/ (hist = 0 /\ lower(msg) \in greetings)
    THEN initial_greeting(cm)
    ELSE IF cm.current_stage = "job_selection" THEN job_selection(cm, msg)
    ELSE IF cm.current_stage \in DOMAIN basic_info_stages THEN basic_info(cm, msg)
    ELSE IF cm.current_stage = "skills_assessment" THEN skills_assessment(cm, msg)
    ELSE IF cm.current_stage = "get_resume" THEN get_resume(cm, msg)
    ELSE IF cm.current_stage = "additional_info"
    THEN additional_info(cm, msg, kickoff_returns)
    ELSE Result(cm, <<>>, NoCrew)

-----------------------------------------------------------------------------
(* run_sequential_analysis (agno-projects/real_estate_agents/analysis.py) *)

\* AVAILABLE_WEBSITES; main() starts an analysis only with at least one selected
AVAILABLE_WEBSITES == {"Zillow", "Realtor.com", "Trulia", "Homes.com"}

\* the most listings one search extracts
MaxProperties == 2

\* no call of run_sequential_analysis has been made
NoAnalysis ==
    [pc |-> "idle",
     selected_websites |-> {},
     properties_data |-> [error |-> FALSE, properties |-> 0],
     reported |-> <<>>,
     ran |-> <<>>,
     returned |-> "nothing"]

\* update_callback(progress, status, activity); progress is kept in
\* hundredths: 0.2 is 20, 0.95 is 95, 1.0 is 100
update_callback(a, progress) == [a EXCEPT !.reported = Append(@, progress)]

\* DirectFirecrawlAgent.find_properties_direct: the dict it can return, as
\* whether it has the key "error" and the length of its "properties" list.
\* It returns properties only when the list is not empty.
find_properties_direct(selected_websites) ==
    IF selected_websites \cap AVAILABLE_WEBSITES = {}
    THEN {[error |-> TRUE, properties |-> 0]}
    ELSE {[error |-> TRUE, properties |-> 0]}
            \cup {[error |-> FALSE, properties |-> n] : n \in 1..MaxProperties}

\* The call returns (or raises): the caller may start the next one.
returns(a, how) == [a EXCEPT !.pc = "returned", !.returned = how]

-----------------------------------------------------------------------------
(* The messages the user types *)

\* The user stops sending malformed emails once this many failures are counted.
MaxAttempts == 4

always_messages == {<<"r", "e", "s", "e", "t">>, <<"S", "t", "a", "r", "t", " ", "O", "v", "e", "r">>, <<"H", "i">>, <<"R", "e", "s", "t", "a", "r", "t", " ", "a", "p", "p", "l", "i", "c", "a", "t", "i", "o", "n">>}

stage_messages(stage) ==
    CASE stage = "welcome" -> {<<"D", "a", "t", "a", " ", "S", "c", "i", "e", "n", "t", "i", "s", "t", " ", "p", "o", "s", "i", "t", "i", "o", "n">>}
      [] stage = "job_selection" ->
            {<<"D", "a", "t", "a", " ", "S", "c", "i", "e", "n", "t", "i", "s", "t", " ", "p", "o", "s", "i", "t", "i", "o", "n">>, <<"I", " ", "w", "a", "n", "t", " ", "t", "h", "e", " ", "s", "o", "f", "t", "w", "a", "r", "e", " ", "e", "n", "g", "i", "n", "e", "e", "r", " ", "r", "o", "l", "e">>,
             <<"p", "r", "o", "d", "u", "c", "t", " ", "m", "a", "n", "a", "g", "e", "r">>, <<"d", "a", "t", "a", " ", "e", "n", "g", "i", "n", "e", "e", "r">>, <<"e", "n", "g", "i", "n", "e", "e", "r", "i", "n", "g", " ", "m", "a", "n", "a", "g", "e", "r">>}
      [] stage = "get_name" -> {<<" ", "j", "o", " ">>, <<"a">>}
      [] stage = "get_email" -> {<<"j", "o", "@", "x", ".", "i", "o">>, <<"j", "o", "@", "x">>}
      [] stage = "get_phone" -> {<<"(", "5", "5", "5", ")", " ", "1", "2", "3", "-", "4", "5", "6", "7">>, <<"5", "5", "5", "-", "1", "2", "3", "4">>}
      [] OTHER -> {<<"1", "2", " ", "L", "P", "A">>}

user_messages(stage) == always_messages \cup stage_messages(stage)

Messages ==
    UNION {user_messages(s) :
            s \in {"job_selection", "get_name", "get_email", "get_phone", "get_current_ctc"}}

-----------------------------------------------------------------------------
(* The system *)

\* demo.launch(server_name="0.0.0.0") answers every browser session that
\* connects; each has its own chat window, all call the one chatbot_logic.
MaxSessions == 2

Sessions == 1..MaxSessions

\* what a chat window's calls of chatbot_logic read and write: the
\* module-level object, whichever window the call comes from
conv_manager_of(s) == conv_manager

Init ==
    /\ conv_manager = reset_state
    /\ history = [s \in Sessions |-> 0]
    /\ session = 0
    /\ message = None
    /\ stage_before = "welcome"
    /\ yielded = <<>>
    /\ crew = NoCrew
    /\ analysis = NoAnalysis

\* crew.kickoff() returns or raises; it is called from the additional_info stage only
kickoff_outcomes(cm) == IF cm.current_stage = "additional_info" THEN BOOLEAN ELSE {TRUE}

\* Gradio calls chatbot_logic with the message and the history of the chat
\* window it came from, runs the generator to its end (one call at a time) and
\* appends the exchange to that window, so the window's next call gets a
\* history that is not empty.
Turn(s, msg) ==
    \E kickoff_returns \in kickoff_outcomes(conv_manager_of(s)) :
        \E r \in {chatbot_logic(conv_manager_of(s), msg, history[s], kickoff_returns)} :
            /\ dict_get(r.cm.validation_attempts, "email", 0) <= MaxAttempts
            /\ conv_manager' = r.cm
            /\ yielded' = r.yielded
            /\ crew' = r.crew
            /\ message' = msg
            /\ stage_before' = conv_manager.current_stage
            /\ history' = [history EXCEPT ![s] = 1]
            /\ session' = s
            /\ UNCHANGED analysis

\* A chat window is emptied (its clear or undo button, or a reloaded page);
\* the module-level conv_manager is untouched.
ClearChat(s) ==
    /\ history[s] # 0
    /\ history' = [history EXCEPT ![s] = 0]
    /\ session' = s
    /\ message' = None
    /\ stage_before' = conv_manager.current_stage
    /\ yielded' = <<>>
    /\ crew' = NoCrew
    /\ UNCHANGED <<conv_manager, analysis>>

Next ==
    \E s \in Sessions :
        \/ \E msg \in user_messages(conv_manager.current_stage) : Turn(s, msg)
        \/ ClearChat(s)

Spec == Init /\ [][Next]_vars

\* One conversation in one chat window: the user answers what is asked (any first
\* message, then a role, a valid name, a valid email, a valid phone number, then
\* any text that is no reset keyword) and never empties the window.
script_allows(stage, msg) ==
    CASE stage = "welcome" -> TRUE
      [] stage = "job_selection" ->
            /\ lower(msg) \notin reset_commands
            /\ process_job_selection(reset_state, msg).next_stage = "get_name"
      [] stage = "get_name" -> lower(msg) \notin reset_commands /\ Len(strip(msg)) >= 2
      [] stage = "get_email" -> is_valid_email(msg)
      [] stage = "get_phone" -> is_valid_phone(msg)
      [] OTHER -> lower(msg) \notin reset_commands

ConversationTurn ==
    \E msg \in user_messages(conv_manager.current_stage) :
        script_allows(conv_manager.current_stage, msg) /\ Turn(1, msg)

\* The user keeps answering, and every call of chatbot_logic runs to its end.
SpecConversation == Init /\ [][ConversationTurn]_vars /\ WF_vars(ConversationTurn)

-----------------------------------------------------------------------------
(* get_skill_question applied to the skills of the current role *)

\* required_skills + optional_skills of the role on record
all_skills(cm) ==
    JOB_CONFIGS[cm.user_profile.job_role].required_skills
        \o JOB_CONFIGS[cm.user_profile.job_role].optional_skills

\* get_skill_question(skill) is evaluated for a skill of the role on record
AskSkillQuestion ==
    \E skill \in Range(all_skills(conv_manager)) :
        /\ yielded' = <<get_skill_question(conv_manager, skill)>>
        /\ message' = None
        /\ stage_before' = conv_manager.current_stage
        /\ crew' = NoCrew
        /\ UNCHANGED <<conv_manager, history, session, analysis>>

\* The scripted conversation, with get_skill_question evaluated in its states.
SpecSkillQuestion == Init /\ [][ConversationTurn \/ AskSkillQuestion]_vars

-----------------------------------------------------------------------------
(* One call of run_sequential_analysis after the other *)

chat == <<conv_manager, history, session, message, stage_before, yielded, crew>>

\* main() calls run_sequential_analysis with the websites selected in the
\* sidebar; the agents are created and 0.2 is reported.
StartAnalysis ==
    \E selected_websites \in (SUBSET AVAILABLE_WEBSITES) \ {{}} :
        /\ analysis.pc \in {"idle", "returned"}
        /\ analysis' = update_callback([NoAnalysis EXCEPT !.pc = "search",
                                                          !.selected_websites = selected_websites],
                                       20)
        /\ UNCHANGED chat

\* Step 1 with the two early returns for an error and for an empty list, but
\* going on after an error
PropertySearch_ignoring_error ==
    \E properties_data \in find_properties_direct(analysis.selected_websites) :
        /\ analysis.pc = "search"
        /\ LET a == [analysis EXCEPT !.properties_data = properties_data]
           IN  analysis' = [update_callback(update_callback(a, 40), 50) EXCEPT !.pc = "market"]
        /\ UNCHANGED chat

\* Step 1: the property search, the two early returns, then 0.4 and 0.5
PropertySearch ==
    \E properties_data \in find_properties_direct(analysis.selected_websites) :
        /\ analysis.pc = "search"
        /\ LET a == [analysis EXCEPT !.properties_data = properties_data]
           IN  analysis' =
                 IF properties_data.error THEN returns(a, "message")
                 ELSE IF properties_data.properties = 0 THEN returns(a, "message")
                 ELSE [update_callback(update_callback(a, 40), 50) EXCEPT !.pc = "market"]
        /\ UNCHANGED chat

\* Step 2: market_analysis_agent.run returns, then 0.7 and 0.8, or raises
MarketAnalysis ==
    \E run_returns \in BOOLEAN :
        /\ analysis.pc = "market"
        /\ LET a == [analysis EXCEPT !.ran = Append(@, "market_analysis_agent")]
           IN  analysis' =
                 IF run_returns
                 THEN [update_callback(update_callback(a, 70), 80) EXCEPT !.pc = "valuation"]
                 ELSE returns(a, "raised")
        /\ UNCHANGED chat

\* Step 3: property_valuation_agent.run returns, then 0.9 and 0.95, or raises
PropertyValuation ==
    \E run_returns \in BOOLEAN :
        /\ analysis.pc = "valuation"
        /\ LET a == [analysis EXCEPT !.ran = Append(@, "property_valuation_agent")]
           IN  analysis' =
                 IF run_returns
                 THEN [update_callback(update_callback(a, 90), 95) EXCEPT !.pc = "synthesis"]
                 ELSE returns(a, "raised")
        /\ UNCHANGED chat

\* Step 4: the synthesis is formatted, 1.0 is reported and the dict is returned
FinalSynthesis ==
    /\ analysis.pc = "synthesis"
    /\ analysis' = returns(update_callback(analysis, 100), "result")
    /\ UNCHANGED chat

NextAnalysis ==
    \/ StartAnalysis
    \/ PropertySearch
    \/ MarketAnalysis
    \/ PropertyValuation
    \/ FinalSynthesis

SpecAnalysis == Init /\ [][NextAnalysis]_vars

-----------------------------------------------------------------------------
(* Vocabulary of the properties *)

IsReset(msg) == lower(msg) \in reset_commands

optional_fields ==
    {"name", "email", "phone", "current_ctc", "expected_ctc", "total_experience",
     "current_company", "current_role", "location", "notice_period", "resume_text",
     "additional_info"}

email_attempts(cm) == dict_get(cm.validation_attempts, "email", 0)

\* no field of the record holds a value and no attempt is counted
FreshRecord(cm) ==
    /\ \A f \in optional_fields : cm.user_profile[f] = None
    /\ DOMAIN cm.user_profile.skills_experience = {}
    /\ cm.current_skill_index = 0
    /\ \A k \in DOMAIN cm.validation_attempts : cm.validation_attempts[k] = 0

\* the linear order of the stages
stage_order ==
    <<"welcome", "job_selection", "get_name", "get_email", "get_phone", "get_current_ctc",
      "get_expected_ctc", "get_total_experience", "get_current_company", "get_current_role",
      "get_location", "get_notice_period", "skills_assessment", "get_resume",
      "additional_info", "processing">>

\* the position of a stage in the order; 0 for a label that is no stage
stage_rank(stage) ==
    IF stage \in Range(stage_order) THEN IndexIn(stage, stage_order) ELSE 0

free_text_fields ==
    <<"current_ctc", "expected_ctc", "total_experience", "current_company", "current_role",
      "location", "notice_period">>

\* the step handled a message that is no reset keyword
TurnNoReset == message' # None /\ ~IsReset(message')

-----------------------------------------------------------------------------
(* Which stages a session gets to *)

\* The stage stored after current compensation is the label "expected_ctc" of
\* basic_info_stages, which no block of chatbot_logic handles: no turn takes the
\* session to expected-compensation collection or to any stage after it. The
\* skills_assessment, get_resume and additional_info blocks and process_with_crew
\* are therefore never entered (C6, C9 and C10 speak of turns in those stages).
StagesReached ==
    conv_manager.current_stage \in
        {"welcome", "job_selection", "get_name", "get_email", "get_phone", "get_current_ctc",
         "expected_ctc"}

-----------------------------------------------------------------------------
(* C1 *)

\* C1 as stated: after a turn whose message is a reset keyword the stage is
\* welcome, every record field is unset, the skill cursor is 0 and every
\* attempt counter is zero.
C1_Original ==
    (message # None /\ IsReset(message)) =>
        /\ conv_manager.current_stage = "welcome"
        /\ FreshRecord(conv_manager)

\* C1 as amended: after a turn whose message is a reset keyword, received in any
\* stage, the welcome prompt is the one output, the stage is job_selection (the
\* stage that awaits the answer to the welcome prompt), every record field is
\* unset with the job role back at its default, the skill cursor is 0 and every
\* attempt counter is zero.
C1_ResetLeavesFreshJobSelection ==
    (message # None /\ IsReset(message)) =>
        /\ conv_manager.current_stage = "job_selection"
        /\ yielded = <<get_welcome_message>>
        /\ FreshRecord(conv_manager)
        /\ conv_manager.user_profile.job_role = "data_scientist"

\* a reset keyword was received while current compensation was awaited, with a
\* name, an email and a phone number on record
C1_Witness ==
    /\ message # None /\ IsReset(message)
    /\ stage_before = "get_current_ctc"
    /\ conv_manager.current_stage = "job_selection"

-----------------------------------------------------------------------------
(* C2 *)

\* C2 as stated: the conversation that answers every question reaches the turn
\* in which the synthesis step is called.
C2_Original == <>(crew.outcome # "not_called")

-----------------------------------------------------------------------------
(* C3 *)

\* C3 as stated: in each of the seven free-text stages a message that is no
\* reset keyword is stored unchanged in the stage's field and the stage becomes
\* the next stage of the order.
C3_Original ==
    [][\A i \in DOMAIN free_text_fields :
          (conv_manager.current_stage = stage_order[i + 5] /\ TurnNoReset) =>
              /\ conv_manager'.user_profile[free_text_fields[i]] = message'
              /\ conv_manager'.current_stage = stage_order[i + 6]]_vars

-----------------------------------------------------------------------------
(* C4 *)

\* C4 as stated: at email collection a well-formed email is stored and the stage
\* becomes phone collection; a malformed one that is the 1st or 2nd failure
\* leaves the email unset and the stage at email collection, and one that is
\* the 3rd failure leaves the email unset and moves the stage to phone
\* collection.
C4_Original ==
    [][(conv_manager.current_stage = "get_email" /\ TurnNoReset) =>
          IF is_valid_email(message')
          THEN /\ conv_manager'.user_profile.email = message'
               /\ conv_manager'.current_stage = "get_phone"
          ELSE LET failure == email_attempts(conv_manager) + 1
               IN  /\ failure \in 1..3 => conv_manager'.user_profile.email = None
                   /\ failure \in 1..2 => conv_manager'.current_stage = "get_email"
                   /\ failure = 3 => conv_manager'.current_stage = "get_phone"]_vars

-----------------------------------------------------------------------------
(* C5 *)

\* C5 as stated: at phone collection a message with at least 10 digits is stored
\* and the stage becomes current-compensation collection; any other message
\* leaves the phone unset and the stage at phone collection.
C5_Original ==
    [][(conv_manager.current_stage = "get_phone" /\ TurnNoReset) =>
          IF Cardinality({i \in DOMAIN message' : message'[i] \in ascii_digits}) >= 10
          THEN /\ conv_manager'.user_profile.phone = message'
               /\ conv_manager'.current_stage = "get_current_ctc"
          ELSE /\ conv_manager'.user_profile.phone = None
               /\ conv_manager'.current_stage = "get_phone"]_vars

-----------------------------------------------------------------------------
(* C7 *)

\* C7 as stated: a turn whose message is no reset keyword and that is not the
\* reset after a successful synthesis keeps the stage or moves it forward in
\* the order, and gives no new value to a record field that is set.
C7_Original ==
    [][(TurnNoReset /\ crew'.outcome # "returned") =>
          /\ \/ conv_manager'.current_stage = conv_manager.current_stage
             \/ stage_rank(conv_manager'.current_stage) > stage_rank(conv_manager.current_stage)
          /\ \A f \in optional_fields :
                conv_manager.user_profile[f] # None =>
                    conv_manager'.user_profile[f] = conv_manager.user_profile[f]
          /\ \A s \in DOMAIN conv_manager.user_profile.skills_experience :
                /\ s \in DOMAIN conv_manager'.user_profile.skills_experience
                /\ conv_manager'.user_profile.skills_experience[s] =
                        conv_manager.user_profile.skills_experience[s]]_vars

-----------------------------------------------------------------------------
(* C8 *)

\* C8: a record field that is set stays set in every step that is neither a
\* turn with a reset keyword nor the turn of a successful synthesis.
C8_SetFieldsStaySet ==
    [][(message' # None /\ (IsReset(message') \/ crew'.outcome = "returned")) \/
          /\ \A f \in optional_fields :
                conv_manager.user_profile[f] # None => conv_manager'.user_profile[f] # None
          /\ DOMAIN conv_manager.user_profile.skills_experience
                \subseteq DOMAIN conv_manager'.user_profile.skills_experience]_vars

\* a message was handled in role selection while a name, an email and a phone
\* number collected earlier in the session are still on record
C8_Witness ==
    /\ message # None /\ ~IsReset(message)
    /\ stage_before = "job_selection"
    /\ conv_manager.user_profile.name # None
    /\ conv_manager.user_profile.email # None
    /\ conv_manager.user_profile.phone # None

-----------------------------------------------------------------------------
(* C11 *)

\* C11 as stated: every handled message, other than a message that is no reset
\* keyword received in the processing stage, gets at least one output.
C11_Original ==
    (message # None /\ ~(stage_before = "processing" /\ ~IsReset(message))) =>
        yielded # <<>>

-----------------------------------------------------------------------------
(* C12 *)

\* C12 as stated: in every reachable state the current stage is one of the
\* sixteen stages of the order.
C12_Original == conv_manager.current_stage \in Range(stage_order)

-----------------------------------------------------------------------------
(* C13 *)

\* C13 as stated: a message handled for one chat window changes neither the
\* stage nor the record nor the skill cursor nor the attempt counters that the
\* calls of another chat window read.
C13_Original ==
    [][message' # None =>
          \A s \in Sessions \ {session'} :
              /\ conv_manager_of(s)'.current_stage = conv_manager_of(s).current_stage
              /\ conv_manager_of(s)'.user_profile = conv_manager_of(s).user_profile
              /\ conv_manager_of(s)'.current_skill_index =
                    conv_manager_of(s).current_skill_index
              /\ conv_manager_of(s)'.validation_attempts =
                    conv_manager_of(s).validation_attempts]_vars

-----------------------------------------------------------------------------
(* C14 *)

\* C14 as stated: a reset keyword, in whatever stage it is received, is stored
\* in no record field, counted as no validation failure and triggers no
\* synthesis call; the turn leaves the freshly reset state (stage welcome) and
\* the welcome prompt as its one output, and nothing else.
C14_Original ==
    (message # None /\ IsReset(message)) =>
        /\ \A f \in optional_fields : conv_manager.user_profile[f] # message
        /\ DOMAIN conv_manager.validation_attempts = {}
        /\ crew.outcome = "not_called"
        /\ yielded = <<get_welcome_message>>
        /\ conv_manager = reset_state

\* C14 as amended: a reset keyword, in whatever stage it is received, is stored
\* in no record field, counted as no validation failure and triggers no
\* synthesis call; the turn yields the welcome prompt as its one output and
\* leaves the freshly reset state with the stage set to job_selection.
C14_ResetBeforeStageLogic ==
    (message # None /\ IsReset(message)) =>
        /\ \A f \in optional_fields : conv_manager.user_profile[f] # message
        /\ DOMAIN conv_manager.validation_attempts = {}
        /\ crew.outcome = "not_called"
        /\ yielded = <<get_welcome_message>>
        /\ conv_manager = [reset_state EXCEPT !.current_stage = "job_selection"]

\* a reset keyword was received while an email was awaited, where the stage
\* logic would have counted it as a malformed email
C14_Witness ==
    /\ message # None /\ IsReset(message)
    /\ ~is_valid_email(message)
    /\ stage_before = "get_email"
    /\ conv_manager.current_stage = "job_selection"

-----------------------------------------------------------------------------
(* C15 *)

\* the keywords process_job_selection looks for, by role
role_keywords ==
    [data_scientist |-> {<<"d", "a", "t", "a">>, <<"s", "c", "i", "e", "n", "t", "i", "s", "t">>},
     software_engineer |-> {<<"s", "o", "f", "t", "w", "a", "r", "e">>, <<"e", "n", "g", "i", "n", "e", "e", "r">>},
     product_manager |-> {<<"p", "r", "o", "d", "u", "c", "t">>, <<"m", "a", "n", "a", "g", "e", "r">>}]

\* the roles of which msg contains a keyword, whatever the case of its letters
roles_named(msg) ==
    {r \in DOMAIN role_keywords : \E k \in role_keywords[r] : contains(k, lower(msg))}

\* C15 as stated: in role selection a message that is no reset keyword and
\* names a role stores a role it names, moves the stage to name collection and
\* yields the name prompt; one that names no role leaves role and stage as they
\* are and yields the clarifying re-prompt.
C15_Original ==
    [][(conv_manager.current_stage = "job_selection" /\ TurnNoReset) =>
          IF roles_named(message') # {}
          THEN /\ conv_manager'.user_profile.job_role \in roles_named(message')
               /\ conv_manager'.current_stage = "get_name"
               /\ yielded' =
                    <<Prompt("job_selected",
                             <<JOB_CONFIGS[conv_manager'.user_profile.job_role].role>>)>>
          ELSE /\ conv_manager'.user_profile.job_role = conv_manager.user_profile.job_role
               /\ conv_manager'.current_stage = "job_selection"
               /\ yielded' = <<Prompt("job_not_caught", <<>>)>>]_vars

-----------------------------------------------------------------------------
(* C16 *)

\* C16 as stated: at name collection a message shorter than 2 characters once
\* trimmed leaves the name and the stage as they are and gets a re-prompt; any
\* other message that is no reset keyword is stored trimmed and title-cased and
\* the stage becomes email collection.
C16_Original ==
    [][(conv_manager.current_stage = "get_name" /\ TurnNoReset) =>
          IF Len(strip(message')) < 2
          THEN /\ conv_manager'.user_profile.name = conv_manager.user_profile.name
               /\ conv_manager'.current_stage = "get_name"
               /\ yielded' = <<Prompt("name_invalid", <<>>)>>
          ELSE /\ conv_manager'.user_profile.name = title(strip(message'))
               /\ conv_manager'.current_stage = "get_email"]_vars

-----------------------------------------------------------------------------
(* C19 *)

\* C19 as stated: from the controller state of any reachable state, a message
\* gets the same outputs and leaves the same state whether the chat history
\* handed to chatbot_logic is empty or not.
C19_Original ==
    \A msg \in user_messages(conv_manager.current_stage) :
        \A kickoff_returns \in kickoff_outcomes(conv_manager) :
            chatbot_logic(conv_manager, msg, 0, kickoff_returns) =
                chatbot_logic(conv_manager, msg, 1, kickoff_returns)

-----------------------------------------------------------------------------
(* C21 *)

\* C21: the attempt counters change only in a turn at email collection whose
\* message is no reset keyword and no well-formed email, where the email counter
\* grows by one, or by being emptied in reset_state (a reset keyword, or the end
\* of a successful synthesis); every other step leaves them as they are.
C21_AttemptsChangeOnlyByFailureOrReset ==
    [][conv_manager'.validation_attempts # conv_manager.validation_attempts =>
          \/ /\ conv_manager.current_stage = "get_email"
             /\ TurnNoReset
             /\ ~is_valid_email(message')
             /\ conv_manager'.validation_attempts =
                    dict_set(conv_manager.validation_attempts, "email",
                             email_attempts(conv_manager) + 1)
          \/ /\ message' # None
             /\ IsReset(message') \/ crew'.outcome = "returned"
             /\ conv_manager'.validation_attempts = EmptyDict]_vars

\* a malformed email was just counted as the first failure
C21_Witness ==
    /\ message # None /\ ~IsReset(message) /\ ~is_valid_email(message)
    /\ stage_before = "get_email"
    /\ conv_manager.current_stage = "get_email"
    /\ email_attempts(conv_manager) = 1

-----------------------------------------------------------------------------
(* C22 *)

\* C22: in every reachable state the job role of the record is a key of
\* JOB_CONFIGS, so the role's entry and its two skill lists are found.
\* (JOB_CONFIGS itself is a module constant that no statement assigns to.)
C22_JobRoleIsConfigured ==
    /\ conv_manager.user_profile.job_role \in DOMAIN JOB_CONFIGS
    /\ {"required_skills", "optional_skills"} \subseteq
            DOMAIN JOB_CONFIGS[conv_manager.user_profile.job_role]

\* role selection has just stored a role other than the default one
C22_Witness ==
    /\ stage_before = "job_selection"
    /\ conv_manager.current_stage = "get_name"
    /\ conv_manager.user_profile.job_role = "product_manager"

-----------------------------------------------------------------------------
(* C25 *)

\* msg is, letter case aside, one of the four reset keywords and nothing else
ExactKeyword(msg) ==
    \E k \in reset_commands :
        /\ Len(msg) = Len(k)
        /\ \A i \in 1..Len(k) : lower_char(msg[i]) = k[i]

\* msg has a reset keyword somewhere in it, letter case aside
ContainsKeyword(msg) ==
    \E k \in reset_commands : \E i \in 1..(Len(msg) - Len(k) + 1) :
        /\ lower_char(msg[i]) = k[1]
        /\ \A j \in 2..Len(k) : lower_char(msg[i + j - 1]) = k[j]

\* C25: a record with a set field is emptied by a turn only if the whole
\* message is a reset keyword; a message that contains a keyword without being
\* one is handled by the stage it arrives in (role selection re-prompts or
\* selects, name, email and phone collection validate it, current-compensation
\* collection stores it) and every set field stays set.
C25_ResetOnlyOnWholeMessage ==
    [][message' # None =>
          /\ ((\E f \in optional_fields : conv_manager.user_profile[f] # None)
                /\ FreshRecord(conv_manager')) => ExactKeyword(message')
          /\ (ContainsKeyword(message') /\ ~ExactKeyword(message')) =>
                /\ \A f \in optional_fields :
                      conv_manager.user_profile[f] # None =>
                          conv_manager'.user_profile[f] # None
                /\ email_attempts(conv_manager') >= email_attempts(conv_manager)
                /\ conv_manager.current_stage = "welcome" =>
                      conv_manager'.current_stage = "job_selection"
                /\ conv_manager.current_stage = "job_selection" =>
                      yielded' \in {<<Prompt("job_not_caught", <<>>)>>}
                                   \cup {<<Prompt("job_selected", <<JOB_CONFIGS[r].role>>)>> :
                                            r \in DOMAIN JOB_CONFIGS}
                /\ conv_manager.current_stage = "get_name" =>
                      IF Len(strip(message')) < 2
                      THEN conv_manager'.current_stage = "get_name"
                      ELSE conv_manager'.user_profile.name = title(strip(message'))
                /\ conv_manager.current_stage = "get_email" =>
                      IF is_valid_email(message')
                      THEN conv_manager'.user_profile.email = message'
                      ELSE email_attempts(conv_manager') = email_attempts(conv_manager) + 1
                /\ conv_manager.current_stage = "get_phone" =>
                      IF is_valid_phone(message')
                      THEN conv_manager'.user_profile.phone = message'
                      ELSE conv_manager'.current_stage = "get_phone"
                /\ conv_manager.current_stage = "get_current_ctc" =>
                      conv_manager'.user_profile.current_ctc = message']_vars

\* "Restart application", received while current compensation was awaited, was
\* stored as the current compensation and the name is still on record
C25_Witness ==
    /\ message # None /\ ContainsKeyword(message) /\ ~ExactKeyword(message)
    /\ stage_before = "get_current_ctc"
    /\ conv_manager.user_profile.current_ctc = message
    /\ conv_manager.user_profile.name # None

-----------------------------------------------------------------------------
(* C26 *)

\* C26: in every reachable state whose stage is phone collection or later (the
\* label stored after current compensation included), the email is set or at
\* least 3 failures are counted.
C26_EmailStageLeftByValidOrExhausted ==
    (\/ stage_rank(conv_manager.current_stage) >= stage_rank("get_phone")
     \/ conv_manager.current_stage = "expected_ctc") =>
        \/ conv_manager.user_profile.email # None
        \/ email_attempts(conv_manager) >= 3

\* the third malformed email has just moved the stage on with no email stored
C26_Witness ==
    /\ stage_before = "get_email"
    /\ conv_manager.current_stage = "get_phone"
    /\ conv_manager.user_profile.email = None
    /\ email_attempts(conv_manager) = 3

-----------------------------------------------------------------------------
(* C27 *)

\* C27 as stated: the email failure counter is at most 3 in every reachable
\* state.
C27_Original == email_attempts(conv_manager) <= 3

-----------------------------------------------------------------------------
(* C28 *)

\* C28: in the welcome stage a message that is no reset keyword, whether or not
\* it names a role, yields the welcome prompt and nothing else, moves the stage
\* to role selection and leaves record, skill cursor and attempt counters as
\* they are.
C28_WelcomeOnlyGreets ==
    [][(conv_manager.current_stage = "welcome" /\ TurnNoReset) =>
          /\ yielded' = <<get_welcome_message>>
          /\ conv_manager' = [conv_manager EXCEPT !.current_stage = "job_selection"]]_vars

\* a message naming a role was handled in the welcome stage
C28_Witness ==
    /\ stage_before = "welcome"
    /\ message # None /\ roles_named(message) # {}
    /\ conv_manager.current_stage = "job_selection"

-----------------------------------------------------------------------------
(* C29 *)

\* the order in which process_job_selection tries the roles
role_precedence == <<"data_scientist", "software_engineer", "product_manager">>

\* C29: in role selection a message that names one or more roles stores the
\* first of them in the order data_scientist, software_engineer,
\* product_manager, and no other.
C29_RolePrecedence ==
    [][(conv_manager.current_stage = "job_selection" /\ TurnNoReset) =>
          \A named \in {roles_named(message')} :
              named # {} =>
                  \E i \in DOMAIN role_precedence :
                      /\ role_precedence[i] \in named
                      /\ \A j \in 1..(i - 1) : role_precedence[j] \notin named
                      /\ conv_manager'.user_profile.job_role = role_precedence[i]
                      /\ conv_manager'.current_stage = "get_name"]_vars

\* "engineering manager" names software_engineer and product_manager and
\* software_engineer was stored
C29_Witness ==
    /\ stage_before = "job_selection"
    /\ message # None /\ roles_named(message) = {"software_engineer", "product_manager"}
    /\ conv_manager.user_profile.job_role = "software_engineer"
    /\ conv_manager.current_stage = "get_name"

-----------------------------------------------------------------------------
(* C24 *)

\* C24: for the role on record and every skill of its required-then-optional
\* list, the question is annotated " (Required)" if the skill is in the role's
\* required list and " (Optional)" if not; it is the skill's own question when
\* get_skill_question has one, and otherwise the generic question about the
\* skill's configured description, or about its title-cased name when the role
\* configures no description for it.
C24_SkillQuestion ==
    LET job_config == JOB_CONFIGS[conv_manager.user_profile.job_role]
    IN  \A skill \in Range(all_skills(conv_manager)) :
            LET annotation ==
                    IF skill \in Range(job_config.required_skills)
                    THEN <<" ", "(", "R", "e", "q", "u", "i", "r", "e", "d", ")">> ELSE <<" ", "(", "O", "p", "t", "i", "o", "n", "a", "l", ")">>
                question == get_skill_question(conv_manager, skill)
            IN  IF skill \in question_templates
                THEN question = Prompt("skill_question", <<skill, annotation>>)
                ELSE IF skill \in DOMAIN job_config.experience_levels
                THEN question = Prompt("generic_skill_question",
                                       <<job_config.experience_levels[skill], annotation>>)
                ELSE question = Prompt("generic_skill_question",
                                       <<title(replace(skill, "_", " ")), annotation>>)

\* for a software engineer the question about python, a skill that is required
\* of a data scientist only, was asked as an optional one
C24_Witness ==
    /\ conv_manager.user_profile.job_role = "software_engineer"
    /\ yielded = <<Prompt("skill_question", <<<<"p", "y", "t", "h", "o", "n">>, <<" ", "(", "O", "p", "t", "i", "o", "n", "a", "l", ")">>>>)>>

-----------------------------------------------------------------------------
(* C30 *)

\* the reports of a call that runs to its end, in hundredths
progress_order == <<20, 40, 50, 70, 80, 90, 95, 100>>

\* C30: the reports made so far are the first reports of the order 0.2, 0.4,
\* 0.5, 0.7, 0.8, 0.9, 0.95, 1.0, each greater than the one before; once the
\* search has returned an error or no property, the call has returned a message
\* with 0.2 as its only report and no agent run; 1.0 is reported only by the
\* call that returns the result, after the market-analysis agent and then the
\* valuation agent have run.
C30_ProgressOrder ==
    /\ Len(analysis.reported) <= Len(progress_order)
    /\ \A i \in DOMAIN analysis.reported : analysis.reported[i] = progress_order[i]
    /\ \A i \in DOMAIN analysis.reported : \A j \in DOMAIN analysis.reported :
            i < j => analysis.reported[i] < analysis.reported[j]
    /\ (/\ analysis.pc \notin {"idle", "search"}
        /\ analysis.properties_data.error \/ analysis.properties_data.properties = 0) =>
            /\ analysis.returned = "message"
            /\ analysis.reported = <<20>>
            /\ analysis.ran = <<>>
    /\ analysis.returned = "message" => analysis.reported = <<20>> /\ analysis.ran = <<>>
    /\ 100 \in Range(analysis.reported) =>
            /\ analysis.returned = "result"
            /\ analysis.ran = <<"market_analysis_agent", "property_valuation_agent">>
    /\ analysis.returned = "result" => analysis.reported = progress_order

\* a call has reported 1.0 and returned the result for two properties
C30_Witness ==
    /\ analysis.returned = "result"
    /\ analysis.properties_data.properties = 2
    /\ analysis.reported[Len(analysis.reported)] = 100

====
